---- MODULE Spec2Model ----
(***************************************************************************)
(* The frame scheduler and swap-chain lifecycle of VT::Application         *)
(* (src/src/application.cpp): Run = Initialize; Update; Shutdown, with     *)
(* RenderFrame, CreateSwapChain and DestroySwapChain stepped one driver    *)
(* call at a time.  The GPU (the graphics queue) and the windowing         *)
(* library are the environment.                                            *)
(***************************************************************************)
EXTENDS Integers, Sequences, FiniteSets, TLC

\* ------------------------------------------------------------------ bounds
\* Largest number of images the driver puts in a swap chain.
MaxImages == 2
\* Window framebuffer widths and heights range over 0..MaxDim.
MaxDim == 1
\* The width in bits the model gives uint32_t (TLC's integers stop below
\* 2^32; all sizes of the model lie far below 2^UintBits).
UintBits == 8
\* The image extents a surface reports range over 1..MaxExtent, the window
\* sizes InitializeSwapChain is evaluated for over 1..MaxExtent + 1.
MaxExtent == 2
\* The minImageCount a surface reports ranges over 1..MaxCount.
MaxCount == 2

\* --------------------------------------------------------------- constants
\* Application::Application: concurrentFrames_(2).
concurrentFrames_ == 2
\* The null handle; a frame slot's fence handle is its slot index + 1.
VK_NULL_HANDLE == 0
\* The "match the window" sentinel of VkSurfaceCapabilitiesKHR.currentExtent.
UINT32_MAX == 2^UintBits - 1

VK_SUCCESS == "VK_SUCCESS"
VK_SUBOPTIMAL_KHR == "VK_SUBOPTIMAL_KHR"
VK_ERROR_OUT_OF_DATE_KHR == "VK_ERROR_OUT_OF_DATE_KHR"
\* Stands for every result that is neither a success code nor out-of-date.
VK_ERROR_DEVICE_LOST == "VK_ERROR_DEVICE_LOST"
\* The value of the RenderFrame locals before they are assigned.
NoResult == "none"

\* What vkAcquireNextImageKHR can return with an infinite timeout.
AcquireResults ==
  {VK_SUCCESS, VK_SUBOPTIMAL_KHR, VK_ERROR_OUT_OF_DATE_KHR, VK_ERROR_DEVICE_LOST}
\* What vkQueuePresentKHR can return.
PresentResults ==
  {VK_SUCCESS, VK_SUBOPTIMAL_KHR, VK_ERROR_OUT_OF_DATE_KHR, VK_ERROR_DEVICE_LOST}

VK_FORMAT_B8G8R8A8_SRGB == "VK_FORMAT_B8G8R8A8_SRGB"
VK_FORMAT_B8G8R8A8_UNORM == "VK_FORMAT_B8G8R8A8_UNORM"
VK_COLOR_SPACE_SRGB_NONLINEAR_KHR == "VK_COLOR_SPACE_SRGB_NONLINEAR_KHR"
VK_COLOR_SPACE_EXTENDED_SRGB_LINEAR_EXT == "VK_COLOR_SPACE_EXTENDED_SRGB_LINEAR_EXT"
VK_PRESENT_MODE_MAILBOX_KHR == "VK_PRESENT_MODE_MAILBOX_KHR"
VK_PRESENT_MODE_FIFO_KHR == "VK_PRESENT_MODE_FIFO_KHR"
VK_PRESENT_MODE_IMMEDIATE_KHR == "VK_PRESENT_MODE_IMMEDIATE_KHR"

\* The VkSurfaceFormatKHR values and VkPresentModeKHR values of the model.
SurfaceFormats ==
  { [format |-> f, colorSpace |-> c] :
      f \in {VK_FORMAT_B8G8R8A8_SRGB, VK_FORMAT_B8G8R8A8_UNORM},
      c \in {VK_COLOR_SPACE_SRGB_NONLINEAR_KHR,
             VK_COLOR_SPACE_EXTENDED_SRGB_LINEAR_EXT} }
PresentModes ==
  {VK_PRESENT_MODE_MAILBOX_KHR, VK_PRESENT_MODE_FIFO_KHR, VK_PRESENT_MODE_IMMEDIATE_KHR}
\* What the read of availableFormats[0] yields when the vector is empty and
\* the read does not trap: whatever lies there.
GarbageFormat == [format |-> "garbage", colorSpace |-> "garbage"]

\* SwapChainSupportData and VkSwapchainCreateInfoKHR, value-initialized: the
\* locals of InitializeSwapChain outside of its run.
NoSupportData ==
  [surfaceCapabilities_ |->
     [currentExtent |-> <<0, 0>>, minImageExtent |-> <<0, 0>>,
      maxImageExtent |-> <<0, 0>>, minImageCount |-> 0, maxImageCount |-> 0],
   formats_ |-> <<>>, presentationModes_ |-> <<>>]
NoCreateInfo ==
  [minImageCount |-> 0, imageFormat |-> [format |-> "none", colorSpace |-> "none"],
   presentMode |-> "none", imageExtent |-> <<0, 0>>]

Dims == 0..MaxDim
Slots == 0..(concurrentFrames_ - 1)
\* inFlightFences_[i], as a handle.
SlotFence(i) == i + 1
FenceHandles == {SlotFence(i) : i \in Slots}

\* The objects DestroySwapChain releases, in the order it releases them.
\* (SwapChainObjectsHandleFirst: vkDestroySwapchainKHR moved to the front.)
SwapChainObjectsHandleFirst ==
  <<"swapChain_", "swapChainFramebuffers_", "commandBuffers_", "graphicsPipeline_",
    "pipelineLayout_", "renderPass_", "swapChainImageViews_">>
\* (SwapChainObjectsAndFences: vkDestroyFence on the slot fences in the place
\* of vkDestroyFramebuffer.)
SwapChainObjectsAndFences ==
  <<"inFlightFences_", "commandBuffers_", "graphicsPipeline_",
    "pipelineLayout_", "renderPass_", "swapChainImageViews_", "swapChain_">>
\* (SwapChainObjectsAndPool: vkDestroyCommandPool in the place of
\* vkFreeCommandBuffers.)
SwapChainObjectsAndPool ==
  <<"swapChainFramebuffers_", "commandPool_", "graphicsPipeline_",
    "pipelineLayout_", "renderPass_", "swapChainImageViews_", "swapChain_">>
SwapChainObjects ==
  <<"swapChainFramebuffers_", "commandBuffers_", "graphicsPipeline_",
    "pipelineLayout_", "renderPass_", "swapChainImageViews_", "swapChain_">>
\* The objects Shutdown releases after DestroySwapChain, in its order.
\* (DeviceObjectsDeviceFirst: vkDestroyDevice moved ahead of the command pool.)
DeviceObjectsDeviceFirst ==
  <<"indexBuffer_", "indexBufferMemory_", "vertexBuffer_", "vertexBufferMemory_",
    "renderFinishedSemaphores_", "imageAvailableSemaphores_", "inFlightFences_",
    "logicalDevice_", "commandPool_", "messenger_", "surface_", "instance_",
    "window_">>
DeviceObjects ==
  <<"indexBuffer_", "indexBufferMemory_", "vertexBuffer_", "vertexBufferMemory_",
    "renderFinishedSemaphores_", "imageAvailableSemaphores_", "inFlightFences_",
    "commandPool_", "logicalDevice_", "messenger_", "surface_", "instance_",
    "window_">>
Range(s) == {s[i] : i \in 1..Len(s)}

VARIABLES
  pc,                   \* the position of the single application thread
  stack,                \* return addresses of the calls in progress
  exitCode,             \* what main returns; -1 while running
  currentFrameIndex_, framebufferResized_, width_, height_,
  fbWidth, fbHeight,    \* the window's framebuffer size (glfwGetFramebufferSize)
  closeRequested,       \* glfwWindowShouldClose
  width, height,        \* locals of CreateSwapChain
  imageIndex, imageResult, presentationResult,     \* locals of RenderFrame
  fenceSignaled,        \* fence handle -> signaled
  imageAvailable,       \* slot -> the image-available semaphore has a pending signal
  imagesInFlight_,      \* image index + 1 -> fence handle or VK_NULL_HANDLE
  swapChainImages_,     \* swapChainImages_.size()
  swapChainImageViews_, \* swapChainImageViews_.size()
  swapChainFramebuffers_, \* swapChainFramebuffers_.size()
  commandBuffers_,      \* commandBuffers_.size()
  swapChainExtent_,
  swapChainSupportData, createInfo,                \* locals of InitializeSwapChain
  physicalDevices,      \* the local of InitializePhysicalDevice
  physicalDeviceData_,  \* the selected device and its queue family indices
  alive,                \* the driver objects that exist
  pending,              \* submissions the graphics queue has not completed
  renderFinished,       \* slot -> the render-finished semaphore has a pending signal
  presents,             \* present requests the presentation queue has not started
  calls                 \* the driver calls of the RenderFrame (or Shutdown) in progress

ctrl == <<pc, stack, exitCode>>
fields == <<currentFrameIndex_, framebufferResized_, width_, height_>>
window == <<fbWidth, fbHeight, closeRequested>>
csLocals == <<width, height>>
rfLocals == <<imageIndex, imageResult, presentationResult>>
presentation == <<renderFinished, presents>>
sync == <<fenceSignaled, imageAvailable, imagesInFlight_, presentation>>
sizes == <<swapChainImages_, swapChainImageViews_, swapChainFramebuffers_, commandBuffers_>>
scLocals == <<swapChainSupportData, createInfo>>
chain == <<sizes, swapChainExtent_, alive, scLocals>>
selection == <<physicalDevices, physicalDeviceData_>>
vars ==
  <<ctrl, fields, window, csLocals, rfLocals, sync, chain, selection, pending, calls>>

\* ----------------------------------------------------------- pure helpers
RECURSIVE BitAnd(_, _)
\* The C++ operator & on unsigned values.
BitAnd(a, b) ==
  IF a = 0 \/ b = 0 THEN 0
  ELSE (a % 2) * (b % 2) + 2 * BitAnd(a \div 2, b \div 2)

\* std::clamp(v, lo, hi) as the standard library computes it.
\* (ClampBelowOnly: the result raised to lo and never lowered to hi.)
ClampBelowOnly(v, lo, hi) == IF v < lo THEN lo ELSE v
Clamp(v, lo, hi) == IF v < lo THEN lo ELSE IF hi < v THEN hi ELSE v

\* static_cast<uint32_t>(int)
ToUint32(i) == i % (UINT32_MAX + 1)

\* std::vector::resize(n, value) on a sequence.
\* (ResizeOmitted: the call left out.)
ResizeOmitted(s, n, value) == s
Resize(s, n, value) ==
  [i \in 1..n |-> IF i <= Len(s) THEN s[i] ELSE value]

\* Application::ChooseSwapChainExtent
ChooseSwapChainExtent(caps, w, h) ==
  IF caps.currentExtent[1] # UINT32_MAX /\ caps.currentExtent[2] # UINT32_MAX
  THEN caps.currentExtent
  ELSE <<Clamp(ToUint32(w), caps.minImageExtent[1], caps.maxImageExtent[1]),
         Clamp(ToUint32(h), caps.minImageExtent[2], caps.maxImageExtent[2])>>

\* Application::ChooseSwapChainSurfaceFormat: the first entry with the
\* wanted format and colour space, else the first entry.
\* (ChooseFirstSurfaceFormat: the function without its loop.)
ChooseFirstSurfaceFormat(availableFormats) ==
  IF availableFormats # <<>> THEN availableFormats[1] ELSE GarbageFormat
ChooseSwapChainSurfaceFormat(availableFormats) ==
  LET wanted == { i \in 1..Len(availableFormats) :
                    /\ availableFormats[i].format = VK_FORMAT_B8G8R8A8_SRGB
                    /\ availableFormats[i].colorSpace = VK_COLOR_SPACE_SRGB_NONLINEAR_KHR }
  IN IF wanted # {}
     THEN availableFormats[CHOOSE i \in wanted : \A j \in wanted : i <= j]
     ELSE IF availableFormats # <<>> THEN availableFormats[1] ELSE GarbageFormat

\* Application::ChooseSwapChainPresentationMode
ChooseSwapChainPresentationMode(availablePresentationModes) ==
  IF \E i \in 1..Len(availablePresentationModes) :
       availablePresentationModes[i] = VK_PRESENT_MODE_MAILBOX_KHR
  THEN VK_PRESENT_MODE_MAILBOX_KHR
  ELSE VK_PRESENT_MODE_FIFO_KHR

\* The surface capabilities the driver reports for a window of w x h pixels:
\* the window's size, or the sentinel with the extent range left to the caller.
SurfaceCaps(w, h) ==
  { [currentExtent |-> <<w, h>>, minImageExtent |-> <<w, h>>,
     maxImageExtent |-> <<w, h>>, minImageCount |-> 1, maxImageCount |-> MaxImages],
    [currentExtent |-> <<UINT32_MAX, UINT32_MAX>>, minImageExtent |-> <<1, 1>>,
     maxImageExtent |-> <<MaxDim, MaxDim>>, minImageCount |-> 1,
     maxImageCount |-> MaxImages] }

\* The lists a surface reports when it reports any.
DefaultFormats ==
  <<[format |-> VK_FORMAT_B8G8R8A8_SRGB, colorSpace |-> VK_COLOR_SPACE_SRGB_NONLINEAR_KHR]>>
DefaultModes == <<VK_PRESENT_MODE_FIFO_KHR>>

\* What QuerySwapChainSupport can return for a window of w x h pixels: the
\* capabilities, and format and mode lists that are empty when the count the
\* driver gave was 0.
SupportData(w, h) ==
  { [surfaceCapabilities_ |-> c, formats_ |-> f, presentationModes_ |-> m] :
      c \in SurfaceCaps(w, h), f \in {<<>>, DefaultFormats}, m \in {<<>>, DefaultModes} }

\* CheckPhysicalDevice: swapChainSupported
SwapChainSupported(data) == data.formats_ # <<>> /\ data.presentationModes_ # <<>>

\* What QuerySwapChainSupport returns during Initialize: the device was
\* selected by CheckPhysicalDevice, which had the same query answered with
\* both lists non-empty.
StartupSupportData(w, h) == { d \in SupportData(w, h) : SwapChainSupported(d) }

\* vkWaitForFences(..., UINT64_MAX) on one fence returns once it is signaled.
\* (FenceWaitReturnsNoBlock: the wait with a zero timeout, which never blocks.)
FenceWaitReturnsNoBlock(f) == TRUE
FenceWaitReturns(f) == fenceSignaled[f]

\* The wait on inFlightFences_[currentFrameIndex_] that opens RenderFrame.
\* (SlotWaitSkipped: RenderFrame without that wait.)
SlotWaitSkipped == TRUE
SlotWaitReturns == FenceWaitReturns(SlotFence(currentFrameIndex_))

\* vkDeviceWaitIdle returns once no queue of the device has work left: no
\* submission is pending and no present request still has its wait ahead.
\* (DeviceWaitIdleNoBlock: the call left out.)
DeviceWaitIdleNoBlock == TRUE
DeviceWaitIdleReturns == pending = <<>> /\ presents = <<>>

\* RenderFrame: waitSemaphores[] = { imageAvailableSemaphores_[currentFrameIndex_] }
SubmitWaitSemaphore == currentFrameIndex_
\* RenderFrame: signalSemaphores[] = { renderFinishedSemaphores_[currentFrameIndex_] }
SubmitSignalSemaphore == currentFrameIndex_
\* RenderFrame: presentInfo.waitSemaphoreCount = 1,
\* presentInfo.pWaitSemaphores = signalSemaphores
\* (PresentWaitsOnNothing: presentInfo.waitSemaphoreCount = 0.)
PresentWaitsOnNothing == {}
PresentWaitSemaphores == {SubmitSignalSemaphore}

\* RenderFrame: imageResult == VK_ERROR_OUT_OF_DATE_KHR
AcquireOutOfDate(res) == res = VK_ERROR_OUT_OF_DATE_KHR
\* RenderFrame: imageResult != VK_SUCCESS && imageResult != VK_SUBOPTIMAL_KHR
\* (AcquireFatalStrict: the test without its VK_SUBOPTIMAL_KHR half.)
AcquireFatalStrict(res) == res # VK_SUCCESS
AcquireFatal(res) == res # VK_SUCCESS /\ res # VK_SUBOPTIMAL_KHR
\* Where RenderFrame continues after the acquire-path CreateSwapChain: it returns.
\* (AcquireRebuildFallsThrough: the return statement left out.)
AcquireRebuildFallsThrough == "rf_imgwait"
\* (AcquireRebuildClears: the acquire-path rebuild followed by the statements
\* that follow the present-path rebuild.)
AcquireRebuildClears == "rf_clear"
AcquireRebuildReturn == "loop"

\* RenderFrame: the condition of the rebuild after vkQueuePresentKHR.
\* (PresentNeedsRebuildNoSuboptimal: the condition without VK_SUBOPTIMAL_KHR.)
PresentNeedsRebuildNoSuboptimal(res, resized) ==
  res = VK_ERROR_OUT_OF_DATE_KHR \/ resized
PresentNeedsRebuild(res, resized) ==
  res = VK_ERROR_OUT_OF_DATE_KHR \/ res = VK_SUBOPTIMAL_KHR \/ resized
\* RenderFrame: else if (presentationResult != VK_SUCCESS)
PresentFatal(res) == res # VK_SUCCESS

\* RenderFrame: (currentFrameIndex_ + 1) & concurrentFrames_
\* (NextFrameIndexUnbounded: currentFrameIndex_ + 1.)
NextFrameIndexUnbounded(i) == i + 1
NextFrameIndex(i) == BitAnd(i + 1, concurrentFrames_)

Call(name) == Append(calls, name)
\* (FatalRunsShutdown: the error caught inside Run, which goes on to Shutdown.)
FatalRunsShutdown == /\ pc' = "sd_objects"
                     /\ exitCode' = 1
Fatal == /\ pc' = "fatal"
         /\ exitCode' = 1
\* The process dies where the build turned undefined behaviour into a trap
\* (an assertion of a hardened standard library, a bad read): main returns
\* nothing.
Crash == /\ pc' = "crashed"
         /\ exitCode' = exitCode

\* ------------------------------------------------------- device selection
\* std::optional<unsigned>: without a value, and holding i.
nullopt == <<>>
Some(i) == <<i>>
\* QueueFamilyIndexData as constructed, and physicalDeviceData_ before a
\* device is selected.
NoQueueFamilies == [graphicsFamily_ |-> nullopt, presentationFamily_ |-> nullopt]
NoPhysicalDevice == [physicalDevice_ |-> VK_NULL_HANDLE, queueIndices_ |-> NoQueueFamilies]

\* QueueFamilyIndexData::IsComplete
IsComplete(queueFamilyIndices) ==
  /\ queueFamilyIndices.graphicsFamily_ # nullopt
  /\ queueFamilyIndices.presentationFamily_ # nullopt

\* The loop of Application::FindQueueFamilies from family i on (the code's i,
\* counted from 0): a graphics family is recorded, and asked for presentation
\* support; the first one that has it is recorded for presentation too and
\* ends the loop.  A family without graphics is passed over.
RECURSIVE FindQueueFamiliesFrom(_, _, _)
FindQueueFamiliesFrom(queueData, i, queueFamilyIndices) ==
  IF i >= Len(queueData) THEN queueFamilyIndices
  ELSE IF queueData[i + 1].graphics
  THEN IF queueData[i + 1].presentationSupport
       THEN [graphicsFamily_ |-> Some(i), presentationFamily_ |-> Some(i)]
       ELSE FindQueueFamiliesFrom(queueData, i + 1,
                                  [queueFamilyIndices EXCEPT !.graphicsFamily_ = Some(i)])
  ELSE FindQueueFamiliesFrom(queueData, i + 1, queueFamilyIndices)
\* Application::FindQueueFamilies
FindQueueFamilies(physicalDevice) ==
  FindQueueFamiliesFrom(physicalDevice.queueData, 0, NoQueueFamilies)

\* Application::CheckPhysicalDevice: "throws" when QuerySwapChainSupport does,
\* which is called for a device that has the swap-chain extension.
CheckPhysicalDevice(physicalDevice) ==
  LET extensionsSupported == physicalDevice.extensionsSupported
      swapChainSupported ==
        /\ extensionsSupported
        /\ physicalDevice.formats_ # <<>>
        /\ physicalDevice.presentationModes_ # <<>>
  IN IF extensionsSupported /\ ~physicalDevice.surfaceQueried THEN "throws"
     ELSE IF /\ IsComplete(FindQueueFamilies(physicalDevice))
             /\ extensionsSupported
             /\ swapChainSupported
     THEN "true" ELSE "false"

\* The loop of Application::CheckPhysicalDevices from the i-th device on:
\* whether a check threw, and else the index of the first device
\* CheckPhysicalDevice accepts, 0 when it accepts none.
RECURSIVE CheckPhysicalDevicesFrom(_, _)
CheckPhysicalDevicesFrom(devices, i) ==
  IF i > Len(devices) THEN [threw |-> FALSE, found |-> 0]
  ELSE LET r == CheckPhysicalDevice(devices[i])
       IN IF r = "throws" THEN [threw |-> TRUE, found |-> 0]
          ELSE IF r = "true" THEN [threw |-> FALSE, found |-> i]
          ELSE CheckPhysicalDevicesFrom(devices, i + 1)
CheckPhysicalDevices(devices) == CheckPhysicalDevicesFrom(devices, 1)

\* A device with one queue family that does graphics and presentation, the
\* swap-chain extension and a surface with formats and modes; a device
\* without the extension.
GoodDevice ==
  [queueData |-> <<[graphics |-> TRUE, presentationSupport |-> TRUE]>>,
   extensionsSupported |-> TRUE, surfaceQueried |-> TRUE,
   formats_ |-> DefaultFormats, presentationModes_ |-> DefaultModes]
BadDevice ==
  [queueData |-> <<[graphics |-> TRUE, presentationSupport |-> TRUE]>>,
   extensionsSupported |-> FALSE, surfaceQueried |-> TRUE,
   formats_ |-> <<>>, presentationModes_ |-> <<>>]
\* What vkEnumeratePhysicalDevices lists on the machine the program runs on.
InstalledDevices == {<<GoodDevice>>, <<BadDevice>>}
\* physicalDeviceData_ once GoodDevice, listed first, is selected.
SelectedDevice ==
  [physicalDevice_ |-> 1, queueIndices_ |-> FindQueueFamilies(GoodDevice)]

\* Application::InitializePhysicalDevice, continuing at `next`: the driver
\* lists one of `deviceLists` (never an empty list: that throws, as a failed
\* enumeration does).
InitializePhysicalDevice(next, deviceLists) ==
  /\ \E enumerated \in BOOLEAN, devices \in deviceLists :
       IF ~enumerated
       THEN Fatal /\ UNCHANGED selection
       ELSE LET r == CheckPhysicalDevices(devices)
            IN /\ physicalDevices' = devices
               /\ IF r.threw \/ r.found = 0
                  THEN Fatal /\ physicalDeviceData_' = physicalDeviceData_
                  ELSE /\ physicalDeviceData_' =
                            [physicalDevice_ |-> r.found,
                             queueIndices_ |-> FindQueueFamilies(devices[r.found])]
                       /\ pc' = next
                       /\ exitCode' = exitCode
  /\ UNCHANGED <<stack, fields, window, csLocals, rfLocals, sync, chain, pending, calls>>

\* -------------------------------------------------------------------- Init
\* The state once main has constructed the Application and is about to Run.
Init ==
  /\ pc = "start"
  /\ stack = <<>>
  /\ exitCode = -1
  /\ currentFrameIndex_ = 0
  /\ framebufferResized_ = FALSE
  /\ width_ = MaxDim
  /\ height_ = MaxDim
  /\ fbWidth = 0
  /\ fbHeight = 0
  /\ closeRequested = FALSE
  /\ width = 0
  /\ height = 0
  /\ imageIndex = 0
  /\ imageResult = NoResult
  /\ presentationResult = NoResult
  /\ fenceSignaled = [f \in FenceHandles |-> FALSE]
  /\ imageAvailable = [s \in Slots |-> FALSE]
  /\ renderFinished = [s \in Slots |-> FALSE]
  /\ presents = <<>>
  /\ imagesInFlight_ = <<>>
  /\ swapChainImages_ = 0
  /\ swapChainImageViews_ = 0
  /\ swapChainFramebuffers_ = 0
  /\ commandBuffers_ = 0
  /\ swapChainExtent_ = <<0, 0>>
  /\ swapChainSupportData = NoSupportData
  /\ createInfo = NoCreateInfo
  /\ physicalDevices = <<>>
  /\ physicalDeviceData_ = NoPhysicalDevice
  /\ alive = {}
  /\ pending = <<>>
  /\ calls = <<>>

\* ------------------------------------------------- swap-chain construction
\* Application::InitializeSwapChain up to the filled-in createInfo (lines
\* 281-328), continuing at `next`: the driver's report is one of `reports`, or
\* the query fails.  Two statements have undefined behaviour on some reports:
\* availableFormats[0] on an empty list, and std::clamp with its upper limit
\* below its lower one; each either yields a value or ends the process.
InitializeSwapChainChoose(next, reports) ==
  /\ \E queried \in BOOLEAN, data \in reports, trap \in BOOLEAN :
       LET caps == data.surfaceCapabilities_
           swapChainImageCount == caps.minImageCount + 1
           undefined == \/ data.formats_ = <<>>
                        \/ caps.maxImageCount < swapChainImageCount
       IN /\ trap => queried /\ undefined
          /\ IF ~queried
             THEN Fatal /\ UNCHANGED scLocals
             ELSE IF trap
             THEN Crash /\ UNCHANGED scLocals
             ELSE /\ swapChainSupportData' = data
                  /\ createInfo' =
                       [minImageCount |->
                          Clamp(swapChainImageCount, swapChainImageCount,
                                caps.maxImageCount),
                        imageFormat |-> ChooseSwapChainSurfaceFormat(data.formats_),
                        presentMode |->
                          ChooseSwapChainPresentationMode(data.presentationModes_),
                        imageExtent |-> ChooseSwapChainExtent(caps, fbWidth, fbHeight)]
                  /\ pc' = next
                  /\ exitCode' = exitCode
  /\ UNCHANGED <<selection, stack, fields, window, csLocals, rfLocals, sync, sizes,
                 swapChainExtent_, alive, pending, calls>>

\* Application::InitializeSwapChain from vkCreateSwapchainKHR on (lines
\* 330-348), continuing at `next`.  The driver decides the number of images it
\* creates.
InitializeSwapChainCreate(next) ==
  /\ \E n \in 1..MaxImages, outcome \in {"ok", "create_failed", "images_failed"} :
       /\ alive' = IF outcome \in {"ok", "images_failed"}
                   THEN alive \cup {"swapChain_"} ELSE alive
       /\ swapChainExtent_' = IF outcome \in {"ok", "images_failed"}
                              THEN createInfo.imageExtent
                              ELSE swapChainExtent_
       /\ swapChainImages_' = IF outcome = "ok" THEN n ELSE swapChainImages_
       /\ IF outcome = "ok" THEN pc' = next /\ exitCode' = exitCode ELSE Fatal
  /\ calls' = Call("vkCreateSwapchainKHR")
  /\ swapChainSupportData' = NoSupportData
  /\ createInfo' = NoCreateInfo
  /\ UNCHANGED <<selection, stack, fields, window, csLocals, rfLocals, sync,
                 swapChainImageViews_, swapChainFramebuffers_, commandBuffers_,
                 pending>>

\* Application::InitializeImageViews
InitializeImageViews(next) ==
  /\ swapChainImageViews_' = swapChainImages_
  /\ calls' = Call("vkCreateImageView")
  /\ \E ok \in BOOLEAN :
       IF ok THEN /\ alive' = alive \cup {"swapChainImageViews_"}
                  /\ pc' = next
                  /\ exitCode' = exitCode
       ELSE Fatal /\ alive' = alive
  /\ UNCHANGED <<selection, stack, fields, window, csLocals, rfLocals, sync,
                 swapChainImages_, swapChainFramebuffers_, commandBuffers_,
                 swapChainExtent_, scLocals, pending>>

\* What InitializeGraphicsPipeline creates, in its order.
PipelineObjects == <<"pipelineLayout_", "renderPass_", "graphicsPipeline_">>
PipelineCalls ==
  <<"vkCreatePipelineLayout", "vkCreateRenderPass", "vkCreateGraphicsPipelines">>

\* Application::InitializeGraphicsPipeline: k of its three objects are created
\* before a creation call fails (k = 3: none fails).
InitializeGraphicsPipeline(next) ==
  /\ \E k \in 0..3 :
       /\ alive' = alive \cup {PipelineObjects[i] : i \in 1..k}
       /\ calls' = calls \o SubSeq(PipelineCalls, 1, IF k < 3 THEN k + 1 ELSE 3)
       /\ IF k = 3 THEN pc' = next /\ exitCode' = exitCode ELSE Fatal
  /\ UNCHANGED <<selection, stack, fields, window, csLocals, rfLocals, sync, sizes,
                 swapChainExtent_, scLocals, pending>>

\* Application::InitializeFramebuffers
InitializeFramebuffers(next) ==
  /\ swapChainFramebuffers_' = swapChainImageViews_
  /\ calls' = Call("vkCreateFramebuffer")
  /\ \E ok \in BOOLEAN :
       IF ok THEN /\ alive' = alive \cup {"swapChainFramebuffers_"}
                  /\ pc' = next
                  /\ exitCode' = exitCode
       ELSE Fatal /\ alive' = alive
  /\ UNCHANGED <<selection, stack, fields, window, csLocals, rfLocals, sync,
                 swapChainImages_, swapChainImageViews_, commandBuffers_,
                 swapChainExtent_, scLocals, pending>>

\* Application::InitializeCommandBuffers
InitializeCommandBuffers(next) ==
  /\ commandBuffers_' = swapChainFramebuffers_
  /\ calls' = Call("vkAllocateCommandBuffers")
  /\ \E ok \in BOOLEAN :
       IF ok THEN /\ alive' = alive \cup {"commandBuffers_"}
                  /\ pc' = next
                  /\ exitCode' = exitCode
       ELSE Fatal /\ alive' = alive
  /\ UNCHANGED <<selection, stack, fields, window, csLocals, rfLocals, sync,
                 swapChainImages_, swapChainImageViews_, swapChainFramebuffers_,
                 swapChainExtent_, scLocals, pending>>

\* One creation step of Initialize that makes `objs` or fails.
CreateObjects(objs, callName, next) ==
  /\ calls' = Call(callName)
  /\ \E ok \in BOOLEAN :
       IF ok THEN /\ alive' = alive \cup objs
                  /\ pc' = next
                  /\ exitCode' = exitCode
       ELSE Fatal /\ alive' = alive
  /\ UNCHANGED <<selection, stack, fields, window, csLocals, rfLocals, sync, sizes,
                 swapChainExtent_, scLocals, pending>>

\* ------------------------------------------------------------- Initialize
\* InitializeGLFW .. InitializeVulkanSurface: the window opens with the size
\* given to the constructor; k of the three instance-level objects are made.
BaseObjects == <<"instance_", "messenger_", "surface_", "logicalDevice_">>
InitializeDevice ==
  /\ pc = "start"
  /\ fbWidth' = width_
  /\ fbHeight' = height_
  /\ \E k \in 0..3 :
       /\ alive' = alive \cup {"window_"} \cup {BaseObjects[i] : i \in 1..k}
       /\ IF k = 3 THEN pc' = "in_physical" /\ exitCode' = exitCode ELSE Fatal
  /\ UNCHANGED <<selection, stack, fields, closeRequested, csLocals, rfLocals, sync, sizes,
                 swapChainExtent_, scLocals, pending, calls>>

InitPhysicalDevice ==
  /\ pc = "in_physical"
  /\ InitializePhysicalDevice("in_logical", InstalledDevices)

\* Application::InitializeLogicalDevice; InitializePhysicalDevice has
\* returned, its local is gone.
InitLogicalDevice ==
  /\ pc = "in_logical"
  /\ physicalDevices' = <<>>
  /\ \E ok \in BOOLEAN :
       IF ok THEN /\ alive' = alive \cup {"logicalDevice_"}
                  /\ pc' = "in_swapchain"
                  /\ exitCode' = exitCode
       ELSE Fatal /\ alive' = alive
  /\ UNCHANGED <<stack, fields, window, csLocals, rfLocals, sync, sizes,
                 swapChainExtent_, scLocals, physicalDeviceData_, pending, calls>>

InitSwapChain ==
  /\ pc = "in_swapchain"
  /\ InitializeSwapChainChoose("in_create", StartupSupportData(fbWidth, fbHeight))
InitSwapChainCreate == pc = "in_create" /\ InitializeSwapChainCreate("in_views")
InitImageViews == pc = "in_views" /\ InitializeImageViews("in_pipeline")
InitGraphicsPipeline == pc = "in_pipeline" /\ InitializeGraphicsPipeline("in_framebuffers")
InitFramebuffers == pc = "in_framebuffers" /\ InitializeFramebuffers("in_pool")
InitCommandPool ==
  pc = "in_pool" /\ CreateObjects({"commandPool_"}, "vkCreateCommandPool", "in_vertex")
InitVertexBuffers ==
  /\ pc = "in_vertex"
  /\ CreateObjects({"vertexBuffer_", "vertexBufferMemory_"}, "vkCreateBuffer", "in_index")
InitIndexBuffers ==
  /\ pc = "in_index"
  /\ CreateObjects({"indexBuffer_", "indexBufferMemory_"}, "vkCreateBuffer", "in_cmdbufs")
InitCommandBuffers == pc = "in_cmdbufs" /\ InitializeCommandBuffers("in_sync")

\* fenceInfo.flags = VK_FENCE_CREATE_SIGNALED_BIT
\* (FenceCreatedUnsignaled: fenceInfo.flags left at 0.)
FenceCreatedUnsignaled == FALSE
FenceCreatedSignaled == TRUE

\* Application::InitializeSynchronizationObjects: the fences are created
\* signaled, the tracking table gets one null entry per swap-chain image.
InitializeSynchronizationObjects ==
  /\ pc = "in_sync"
  /\ imagesInFlight_' = Resize(imagesInFlight_, swapChainImages_, VK_NULL_HANDLE)
  /\ \E ok \in BOOLEAN :
       IF ok THEN /\ alive' = alive \cup {"imageAvailableSemaphores_",
                                          "renderFinishedSemaphores_",
                                          "inFlightFences_"}
                  /\ fenceSignaled' = [f \in FenceHandles |-> FenceCreatedSignaled]
                  /\ pc' = "loop"
                  /\ exitCode' = exitCode
                  /\ calls' = <<>>
       ELSE Fatal /\ alive' = alive /\ fenceSignaled' = fenceSignaled
                  /\ calls' = Call("vkCreateFence")
  /\ UNCHANGED <<selection, stack, fields, window, csLocals, rfLocals, imageAvailable,
                 presentation, sizes, swapChainExtent_, scLocals, pending>>

\* ------------------------------------------------------- windowing library
\* glfwPollEvents / glfwWaitEvents: the net effect of the events delivered by
\* one call.  Framebuffer-size events run FramebufferResizeCallback, the last
\* one leaving the size w x h (several of them can end at the size the window
\* had); a close request sets the window's should-close flag.
ServiceEvents ==
  \E resized \in BOOLEAN, w \in Dims, h \in Dims, close \in BOOLEAN :
    /\ ~resized => <<w, h>> = <<fbWidth, fbHeight>>
    /\ fbWidth' = w
    /\ fbHeight' = h
    /\ framebufferResized_' = (framebufferResized_ \/ resized)
    /\ width_' = IF resized THEN w ELSE width_
    /\ height_' = IF resized THEN h ELSE height_
    /\ closeRequested' = (closeRequested \/ close)

\* ------------------------------------------------------------------ Update
\* while (!glfwWindowShouldClose(window_))
\* (UpdateLoopForever: the loop as while (true).)
UpdateLoopForever ==
  /\ pc = "loop"
  /\ pc' = "poll"
  /\ UNCHANGED <<selection, calls, stack, exitCode, fields, window, csLocals, rfLocals, sync, chain,
                 pending>>
UpdateLoopTest ==
  /\ pc = "loop"
  /\ pc' = IF closeRequested THEN "upd_idle" ELSE "poll"
  /\ UNCHANGED <<selection, calls, stack, exitCode, fields, window, csLocals, rfLocals, sync, chain,
                 pending>>

\* glfwPollEvents(); then RenderFrame is entered.
UpdatePollEvents ==
  /\ pc = "poll"
  /\ ServiceEvents
  /\ pc' = "rf_wait"
  /\ UNCHANGED <<selection, stack, exitCode, currentFrameIndex_, csLocals, rfLocals, sync, chain,
                 pending, calls>>

\* vkDeviceWaitIdle at the end of Update; Shutdown starts with DestroySwapChain.
UpdateWaitIdle ==
  /\ pc = "upd_idle"
  /\ DeviceWaitIdleReturns
  /\ calls' = Call("vkDeviceWaitIdle")
  /\ pc' = "ds_1"
  /\ stack' = Append(stack, "sd_objects")
  /\ UNCHANGED <<selection, exitCode, fields, window, csLocals, rfLocals, sync, chain, pending>>

\* ------------------------------------------------------------- RenderFrame
\* RenderFrame returns: its locals are gone, the record of its calls is closed.
RfReturn ==
  /\ imageIndex' = 0
  /\ imageResult' = NoResult
  /\ presentationResult' = NoResult
  /\ calls' = <<>>

\* vkWaitForFences on the current slot's fence.
RfWaitFence ==
  /\ pc = "rf_wait"
  /\ SlotWaitReturns
  /\ calls' = Call("vkWaitForFences")
  /\ pc' = "rf_acquire"
  /\ UNCHANGED <<selection, stack, exitCode, fields, window, csLocals, rfLocals, sync, chain,
                 pending>>

\* vkAcquireNextImageKHR and the test of its result.
RfAcquire ==
  /\ pc = "rf_acquire"
  /\ calls' = Call("vkAcquireNextImageKHR")
  /\ \E res \in AcquireResults, idx \in 0..(swapChainImages_ - 1) :
       /\ imageResult' = res
       /\ IF AcquireOutOfDate(res)
          THEN /\ pc' = "cs_size"
               /\ stack' = Append(stack, AcquireRebuildReturn)
               /\ UNCHANGED <<exitCode, imageIndex, imageAvailable>>
          ELSE IF AcquireFatal(res)
          THEN /\ Fatal
               /\ UNCHANGED <<stack, imageIndex, imageAvailable>>
          ELSE /\ pc' = "rf_imgwait"
               /\ imageIndex' = idx
               /\ imageAvailable' = [imageAvailable EXCEPT ![currentFrameIndex_] = TRUE]
               /\ UNCHANGED <<stack, exitCode>>
  /\ UNCHANGED <<selection, fields, window, csLocals, presentationResult, fenceSignaled,
                 imagesInFlight_, presentation, chain, pending>>

\* The wait on the fence that tracks the acquired image, then the image is
\* marked as owned by the current slot's fence.  imageResult was read for the
\* last time by the tests before this point.
RfImageWait ==
  /\ pc = "rf_imgwait"
  /\ LET f == imagesInFlight_[imageIndex + 1] IN
       /\ f # VK_NULL_HANDLE => FenceWaitReturns(f)
       /\ calls' = IF f # VK_NULL_HANDLE THEN Call("vkWaitForFences") ELSE calls
  /\ imagesInFlight_' =
       [imagesInFlight_ EXCEPT ![imageIndex + 1] = SlotFence(currentFrameIndex_)]
  /\ pc' = "rf_reset"
  /\ imageResult' = NoResult
  /\ UNCHANGED <<selection, stack, exitCode, fields, window, csLocals, imageIndex,
                 presentationResult, fenceSignaled, imageAvailable, presentation,
                 chain, pending>>

\* vkResetFences on the current slot's fence.
RfResetFence ==
  /\ pc = "rf_reset"
  /\ fenceSignaled' = [fenceSignaled EXCEPT ![SlotFence(currentFrameIndex_)] = FALSE]
  /\ calls' = Call("vkResetFences")
  /\ pc' = "rf_submit"
  /\ UNCHANGED <<selection, stack, exitCode, fields, window, csLocals, rfLocals, imageAvailable,
                 imagesInFlight_, presentation, chain, pending>>

\* vkQueueSubmit of commandBuffers_[imageIndex] with the current slot's
\* semaphores and fence.
RfSubmit ==
  /\ pc = "rf_submit"
  /\ calls' = Call("vkQueueSubmit")
  /\ \E ok \in BOOLEAN :
       IF ok
       THEN /\ pending' = Append(pending, [slot |-> currentFrameIndex_,
                                           image |-> imageIndex,
                                           wait |-> SubmitWaitSemaphore,
                                           signal |-> SubmitSignalSemaphore,
                                           fence |-> SlotFence(currentFrameIndex_)])
            /\ pc' = "rf_present"
            /\ exitCode' = exitCode
       ELSE Fatal /\ pending' = pending
  /\ UNCHANGED <<selection, stack, fields, window, csLocals, rfLocals, sync, chain>>

\* vkQueuePresentKHR and the test of its result.  The request's wait on its
\* semaphores is queued whatever the result.  rendered records whether the
\* frame's submission, the last one made, has completed.
RfPresent ==
  /\ pc = "rf_present"
  /\ calls' = Call("vkQueuePresentKHR")
  /\ presents' = Append(presents, [image |-> imageIndex,
                                    waits |-> PresentWaitSemaphores,
                                    rendered |-> pending = <<>>])
  /\ \E res \in PresentResults :
       /\ presentationResult' = res
       /\ IF PresentNeedsRebuild(res, framebufferResized_)
          THEN /\ pc' = "cs_size"
               /\ stack' = Append(stack, "rf_clear")
               /\ exitCode' = exitCode
          ELSE IF PresentFatal(res)
          THEN Fatal /\ stack' = stack
          ELSE /\ pc' = "rf_advance"
               /\ UNCHANGED <<stack, exitCode>>
  /\ UNCHANGED <<selection, fields, window, csLocals, imageIndex, imageResult, fenceSignaled,
                 imageAvailable, imagesInFlight_, renderFinished, chain, pending>>

\* framebufferResized_ = false, after the present-path CreateSwapChain.
RfClearResized ==
  /\ pc = "rf_clear"
  /\ framebufferResized_' = FALSE
  /\ pc' = "rf_advance"
  /\ UNCHANGED <<selection, stack, exitCode, currentFrameIndex_, width_, height_, window,
                 csLocals, rfLocals, sync, chain, pending, calls>>

\* The last statement of RenderFrame.
RfAdvance ==
  /\ pc = "rf_advance"
  /\ currentFrameIndex_' = NextFrameIndex(currentFrameIndex_)
  /\ pc' = "loop"
  /\ RfReturn
  /\ UNCHANGED <<selection, stack, exitCode, framebufferResized_, width_, height_, window,
                 csLocals, sync, chain, pending>>

\* --------------------------------------------------------- CreateSwapChain
\* glfwGetFramebufferSize(window_, &width, &height)
CsGetSize ==
  /\ pc = "cs_size"
  /\ width' = fbWidth
  /\ height' = fbHeight
  /\ pc' = "cs_loop"
  /\ UNCHANGED <<selection, stack, exitCode, fields, window, rfLocals, sync, chain, pending, calls>>

\* One turn of the minimized-window loop: the size is read, then events are
\* serviced.
CsMinimizedWait ==
  /\ pc = "cs_loop"
  /\ width = 0 \/ height = 0
  /\ width' = fbWidth
  /\ height' = fbHeight
  /\ ServiceEvents
  /\ UNCHANGED <<selection, ctrl, currentFrameIndex_, rfLocals, sync, chain, pending, calls>>

CsLoopExit ==
  /\ pc = "cs_loop"
  /\ ~(width = 0 \/ height = 0)
  /\ pc' = "cs_idle"
  /\ UNCHANGED <<selection, stack, exitCode, fields, window, csLocals, rfLocals, sync, chain,
                 pending, calls>>

\* vkDeviceWaitIdle, then DestroySwapChain is entered.
CsWaitIdle ==
  /\ pc = "cs_idle"
  /\ DeviceWaitIdleReturns
  /\ calls' = Call("vkDeviceWaitIdle")
  /\ pc' = "ds_1"
  /\ stack' = Append(stack, "cs_swapchain")
  /\ UNCHANGED <<selection, exitCode, fields, window, csLocals, rfLocals, sync, chain, pending>>

CsSwapChain ==
  /\ pc = "cs_swapchain"
  /\ InitializeSwapChainChoose("cs_create", SupportData(fbWidth, fbHeight))
CsSwapChainCreate == pc = "cs_create" /\ InitializeSwapChainCreate("cs_views")
CsImageViews == pc = "cs_views" /\ InitializeImageViews("cs_pipeline")
CsGraphicsPipeline == pc = "cs_pipeline" /\ InitializeGraphicsPipeline("cs_framebuffers")
\* (CsFramebuffersSkipped: CreateSwapChain without its InitializeFramebuffers.)
CsFramebuffersSkipped ==
  /\ pc = "cs_framebuffers"
  /\ pc' = "cs_cmdbufs"
  /\ UNCHANGED <<selection, stack, exitCode, fields, window, csLocals, rfLocals, sync, chain,
                 pending, calls>>
CsFramebuffers == pc = "cs_framebuffers" /\ InitializeFramebuffers("cs_cmdbufs")
CsCommandBuffers == pc = "cs_cmdbufs" /\ InitializeCommandBuffers("cs_resize")

\* imagesInFlight_.resize(swapChainImages_.size(), VK_NULL_HANDLE), and
\* CreateSwapChain returns (its locals are gone); on the acquire path
\* RenderFrame returns with it.
CsResizeTable ==
  /\ pc = "cs_resize"
  /\ imagesInFlight_' = Resize(imagesInFlight_, swapChainImages_, VK_NULL_HANDLE)
  /\ pc' = stack[Len(stack)]
  /\ stack' = SubSeq(stack, 1, Len(stack) - 1)
  /\ width' = 0
  /\ height' = 0
  /\ IF stack[Len(stack)] = "loop" THEN RfReturn ELSE UNCHANGED <<rfLocals, calls>>
  /\ UNCHANGED <<selection, exitCode, fields, window, fenceSignaled, imageAvailable,
                 presentation, chain, pending>>

\* -------------------------------------------------------- DestroySwapChain
DestroyCalls ==
  <<"vkDestroyFramebuffer", "vkFreeCommandBuffers", "vkDestroyPipeline",
    "vkDestroyPipelineLayout", "vkDestroyRenderPass", "vkDestroyImageView",
    "vkDestroySwapchainKHR">>
DsPc == <<"ds_1", "ds_2", "ds_3", "ds_4", "ds_5", "ds_6", "ds_7">>

\* The k-th destroy call of DestroySwapChain; the last one returns.
DestroySwapChainStep ==
  \E k \in 1..Len(SwapChainObjects) :
    /\ pc = DsPc[k]
    /\ alive' = alive \ {SwapChainObjects[k]}
    /\ calls' = Call(DestroyCalls[k])
    /\ IF k < Len(SwapChainObjects)
       THEN pc' = DsPc[k + 1] /\ stack' = stack
       ELSE /\ pc' = stack[Len(stack)]
            /\ stack' = SubSeq(stack, 1, Len(stack) - 1)
    /\ UNCHANGED <<selection, exitCode, fields, window, csLocals, rfLocals, sync, sizes,
                   swapChainExtent_, scLocals, pending>>

\* ---------------------------------------------------------------- Shutdown
DeviceDestroyCalls ==
  <<"vkDestroyBuffer", "vkFreeMemory", "vkDestroyBuffer", "vkFreeMemory",
    "vkDestroySemaphore", "vkDestroySemaphore", "vkDestroyFence",
    "vkDestroyCommandPool", "vkDestroyDevice", "vkDestroyDebugUtilsMessengerEXT",
    "vkDestroySurfaceKHR", "vkDestroyInstance", "glfwDestroyWindow">>

\* The next release of Shutdown after DestroySwapChain.  Looking up the
\* messenger's destroy function can fail, which throws.
ShutdownStep ==
  /\ pc = "sd_objects"
  /\ \E k \in 1..Len(DeviceObjects) :
       /\ DeviceObjects[k] \in alive
       /\ \A j \in 1..(k - 1) : DeviceObjects[j] \notin alive
       /\ \E found \in BOOLEAN :
            /\ ~found => DeviceObjects[k] = "messenger_"
            /\ IF found
               THEN /\ alive' = alive \ {DeviceObjects[k]}
                    /\ calls' = Call(DeviceDestroyCalls[k])
                    /\ IF k = Len(DeviceObjects)
                       THEN pc' = "done" /\ exitCode' = 0
                       ELSE pc' = pc /\ exitCode' = exitCode
               ELSE Fatal /\ UNCHANGED <<alive, calls>>
  /\ UNCHANGED <<selection, stack, fields, window, csLocals, rfLocals, sync, sizes,
                 swapChainExtent_, scLocals, pending>>

\* --------------------------------------------------------------------- GPU
\* The oldest present request whose frame is still being rendered.
FirstUnrendered ==
  LET open == {i \in 1..Len(presents) : ~presents[i].rendered}
  IN IF open = {} THEN 0 ELSE CHOOSE i \in open : \A j \in open : i <= j

\* The graphics queue completes its oldest submission: the wait on the
\* image-available semaphore is over, the render-finished semaphore and the
\* submission's fence are signaled.  The signal finds its semaphore
\* unsignaled: the wait of the present request before it has executed.
GPUComplete ==
  /\ pc \notin {"fatal", "crashed", "done"}
  /\ pending # <<>>
  /\ LET s == Head(pending) IN
       /\ ~renderFinished[s.signal]
       /\ fenceSignaled' = [fenceSignaled EXCEPT ![s.fence] = TRUE]
       /\ imageAvailable' = [imageAvailable EXCEPT ![s.wait] = FALSE]
       /\ renderFinished' = [renderFinished EXCEPT ![s.signal] = TRUE]
  /\ pending' = Tail(pending)
  /\ presents' = IF FirstUnrendered = 0 THEN presents
                 ELSE [presents EXCEPT ![FirstUnrendered].rendered = TRUE]
  /\ UNCHANGED <<selection, ctrl, fields, window, csLocals, rfLocals, imagesInFlight_, chain,
                 calls>>

\* The presentation queue starts its oldest request once the semaphores the
\* request waits on are signaled; the wait unsignals them.
PresentStart ==
  /\ pc \notin {"fatal", "crashed", "done"}
  /\ presents # <<>>
  /\ LET r == Head(presents) IN
       /\ \A s \in r.waits : renderFinished[s]
       /\ renderFinished' = [s \in Slots |-> renderFinished[s] /\ s \notin r.waits]
  /\ presents' = Tail(presents)
  /\ UNCHANGED <<selection, ctrl, fields, window, csLocals, rfLocals, fenceSignaled,
                 imageAvailable, imagesInFlight_, chain, pending, calls>>

Next ==
  \/ InitializeDevice
  \/ InitPhysicalDevice
  \/ InitLogicalDevice
  \/ InitSwapChain
  \/ InitSwapChainCreate
  \/ InitImageViews
  \/ InitGraphicsPipeline
  \/ InitFramebuffers
  \/ InitCommandPool
  \/ InitVertexBuffers
  \/ InitIndexBuffers
  \/ InitCommandBuffers
  \/ InitializeSynchronizationObjects
  \/ UpdateLoopTest
  \/ UpdatePollEvents
  \/ UpdateWaitIdle
  \/ RfWaitFence
  \/ RfAcquire
  \/ RfImageWait
  \/ RfResetFence
  \/ RfSubmit
  \/ RfPresent
  \/ RfClearResized
  \/ RfAdvance
  \/ CsGetSize
  \/ CsMinimizedWait
  \/ CsLoopExit
  \/ CsWaitIdle
  \/ CsSwapChain
  \/ CsSwapChainCreate
  \/ CsImageViews
  \/ CsGraphicsPipeline
  \/ CsFramebuffers
  \/ CsCommandBuffers
  \/ CsResizeTable
  \/ DestroySwapChainStep
  \/ ShutdownStep
  \/ GPUComplete
  \/ PresentStart

Spec == Init /\ [][Next]_vars

\* The steps the application thread takes by itself.  The turn of the
\* minimized-window loop is not among them: its glfwWaitEvents returns only
\* when the windowing system delivers an event.
ThreadStep ==
  \/ InitializeDevice
  \/ InitPhysicalDevice
  \/ InitLogicalDevice
  \/ InitSwapChain
  \/ InitSwapChainCreate
  \/ InitImageViews
  \/ InitGraphicsPipeline
  \/ InitFramebuffers
  \/ InitCommandPool
  \/ InitVertexBuffers
  \/ InitIndexBuffers
  \/ InitCommandBuffers
  \/ InitializeSynchronizationObjects
  \/ UpdateLoopTest
  \/ UpdatePollEvents
  \/ UpdateWaitIdle
  \/ RfWaitFence
  \/ RfAcquire
  \/ RfImageWait
  \/ RfResetFence
  \/ RfSubmit
  \/ RfPresent
  \/ RfClearResized
  \/ RfAdvance
  \/ CsGetSize
  \/ CsLoopExit
  \/ CsWaitIdle
  \/ CsSwapChain
  \/ CsSwapChainCreate
  \/ CsImageViews
  \/ CsGraphicsPipeline
  \/ CsFramebuffers
  \/ CsCommandBuffers
  \/ CsResizeTable
  \/ DestroySwapChainStep
  \/ ShutdownStep

\* The program with a thread that keeps running, a GPU that completes the
\* work submitted to it and a presentation queue that serves its requests.
LiveSpec ==
  /\ Init /\ [][Next]_vars
  /\ WF_vars(ThreadStep) /\ WF_vars(GPUComplete) /\ WF_vars(PresentStart)

\* --------------------------------- InitializeSwapChain on any surface report
Extents == 1..MaxExtent
ExtentPairs == Extents \X Extents
Sentinel == <<UINT32_MAX, UINT32_MAX>>
Within(lo, e, hi) ==
  /\ lo[1] <= e[1] /\ e[1] <= hi[1]
  /\ lo[2] <= e[2] /\ e[2] <= hi[2]

\* The capabilities a surface can report: an extent range with the current
\* extent inside it or the sentinel, and a maximum image count that is 0 (no
\* maximum) or at least the minimum.
ExtentCaps ==
  { c \in [currentExtent : ExtentPairs \cup {Sentinel}, minImageExtent : ExtentPairs,
           maxImageExtent : ExtentPairs, minImageCount : {1},
           maxImageCount : {MaxCount + 1}] :
      /\ Within(c.minImageExtent, c.maxImageExtent, c.maxImageExtent)
      /\ c.currentExtent # Sentinel =>
           Within(c.minImageExtent, c.currentExtent, c.maxImageExtent) }
CountCaps ==
  { c \in [currentExtent : {<<1, 1>>}, minImageExtent : {<<1, 1>>},
           maxImageExtent : {<<1, 1>>}, minImageCount : 1..MaxCount,
           maxImageCount : 0..(MaxCount + 1)] :
      c.maxImageCount = 0 \/ c.maxImageCount >= c.minImageCount }
ListsUpTo2(S) ==
  {<<a>> : a \in S} \cup {<<a, b>> : a \in S, b \in S}

\* The reports InitializeSwapChain is evaluated on: every capability record
\* with the default lists, and every pair of non-empty lists with one
\* capability record.
ReportedSupportData ==
  { [surfaceCapabilities_ |-> c, formats_ |-> DefaultFormats,
     presentationModes_ |-> DefaultModes] : c \in ExtentCaps \cup CountCaps }
  \cup
  { [surfaceCapabilities_ |->
       [currentExtent |-> <<1, 1>>, minImageExtent |-> <<1, 1>>,
        maxImageExtent |-> <<1, 1>>, minImageCount |-> 1,
        maxImageCount |-> MaxCount + 1],
     formats_ |-> f, presentationModes_ |-> m] :
      f \in ListsUpTo2(SurfaceFormats), m \in ListsUpTo2(PresentModes) }

\* Initialize has reached InitializeSwapChain with a window of any size.
ChooseInit ==
  /\ pc = "in_swapchain"
  /\ stack = <<>>
  /\ exitCode = -1
  /\ currentFrameIndex_ = 0
  /\ framebufferResized_ = FALSE
  /\ width_ \in 1..(MaxExtent + 1)
  /\ height_ \in 1..(MaxExtent + 1)
  /\ fbWidth = width_
  /\ fbHeight = height_
  /\ closeRequested = FALSE
  /\ width = 0
  /\ height = 0
  /\ imageIndex = 0
  /\ imageResult = NoResult
  /\ presentationResult = NoResult
  /\ fenceSignaled = [f \in FenceHandles |-> FALSE]
  /\ imageAvailable = [s \in Slots |-> FALSE]
  /\ renderFinished = [s \in Slots |-> FALSE]
  /\ presents = <<>>
  /\ imagesInFlight_ = <<>>
  /\ swapChainImages_ = 0
  /\ swapChainImageViews_ = 0
  /\ swapChainFramebuffers_ = 0
  /\ commandBuffers_ = 0
  /\ swapChainExtent_ = <<0, 0>>
  /\ swapChainSupportData = NoSupportData
  /\ createInfo = NoCreateInfo
  /\ physicalDevices = <<>>
  /\ physicalDeviceData_ = SelectedDevice
  /\ alive = {"window_"} \cup Range(BaseObjects)
  /\ pending = <<>>
  /\ calls = <<>>

\* InitializeSwapChain up to the filled-in createInfo, on any report.
InitSwapChainReported ==
  /\ pc = "in_swapchain"
  /\ InitializeSwapChainChoose("in_create", ReportedSupportData)

ChooseNext ==
  \/ InitSwapChainReported
  \/ InitSwapChainCreate

\* InitializeSwapChain alone, on every window size and surface report.
ChooseSpec == ChooseInit /\ [][ChooseNext]_vars

\* ------------------------------- InitializePhysicalDevice on any device list
\* The queue families a device can have, and the devices a driver can list:
\* only a device with the swap-chain extension has its surface queried.
FamilyKinds == [graphics : BOOLEAN, presentationSupport : BOOLEAN]
DeviceKinds ==
  { d \in [queueData : {<<>>} \cup ListsUpTo2(FamilyKinds),
           extensionsSupported : BOOLEAN, surfaceQueried : BOOLEAN,
           formats_ : {<<>>, DefaultFormats},
           presentationModes_ : {<<>>, DefaultModes}] :
      ~d.extensionsSupported =>
        d.surfaceQueried /\ d.formats_ = <<>> /\ d.presentationModes_ = <<>> }
EnumeratedDevices == ListsUpTo2(DeviceKinds)

\* Initialize has reached InitializePhysicalDevice.
SelectInit ==
  /\ pc = "in_physical"
  /\ stack = <<>>
  /\ exitCode = -1
  /\ currentFrameIndex_ = 0
  /\ framebufferResized_ = FALSE
  /\ width_ = MaxDim
  /\ height_ = MaxDim
  /\ fbWidth = width_
  /\ fbHeight = height_
  /\ closeRequested = FALSE
  /\ width = 0
  /\ height = 0
  /\ imageIndex = 0
  /\ imageResult = NoResult
  /\ presentationResult = NoResult
  /\ fenceSignaled = [f \in FenceHandles |-> FALSE]
  /\ imageAvailable = [s \in Slots |-> FALSE]
  /\ renderFinished = [s \in Slots |-> FALSE]
  /\ presents = <<>>
  /\ imagesInFlight_ = <<>>
  /\ swapChainImages_ = 0
  /\ swapChainImageViews_ = 0
  /\ swapChainFramebuffers_ = 0
  /\ commandBuffers_ = 0
  /\ swapChainExtent_ = <<0, 0>>
  /\ swapChainSupportData = NoSupportData
  /\ createInfo = NoCreateInfo
  /\ physicalDevices = <<>>
  /\ physicalDeviceData_ = NoPhysicalDevice
  /\ alive = {"window_", "instance_", "messenger_", "surface_"}
  /\ pending = <<>>
  /\ calls = <<>>

\* InitializePhysicalDevice on any list of devices.
InitPhysicalDeviceEnumerated ==
  /\ pc = "in_physical"
  /\ InitializePhysicalDevice("in_logical", EnumeratedDevices)

SelectNext ==
  \/ InitPhysicalDeviceEnumerated
  \/ InitLogicalDevice

\* InitializePhysicalDevice and InitializeLogicalDevice alone, on every list
\* of one or two devices.
SelectSpec == SelectInit /\ [][SelectNext]_vars

\* ------------------------------------------------------- call sequences
IsPrefix(a, b) == Len(a) <= Len(b) /\ a = SubSeq(b, 1, Len(a))

\* The driver calls of one complete CreateSwapChain: the device-idle wait, the
\* destroy calls of DestroySwapChain, the creation calls of the rebuild.
RebuildCalls ==
  <<"vkDeviceWaitIdle">> \o DestroyCalls
    \o <<"vkCreateSwapchainKHR", "vkCreateImageView">> \o PipelineCalls
    \o <<"vkCreateFramebuffer", "vkAllocateCommandBuffers">>

\* The calls of a RenderFrame up to the acquire.
AcquireCalls == <<"vkWaitForFences", "vkAcquireNextImageKHR">>

\* The calls of a RenderFrame up to the present request, with or without the
\* wait on the acquired image's fence.
PresentCalls ==
  { AcquireCalls \o w \o <<"vkResetFences", "vkQueueSubmit", "vkQueuePresentKHR">> :
      w \in {<<>>, <<"vkWaitForFences">>} }

RebuildPcs ==
  {"cs_size", "cs_loop", "cs_idle", "cs_swapchain", "cs_create", "cs_views", "cs_pipeline",
   "cs_framebuffers", "cs_cmdbufs", "cs_resize"} \cup Range(DsPc)

\* ------------------------------------------------------------------ claims

\* C1: when the acquire reports out-of-date, the RenderFrame call does one
\* rebuild (device-idle wait, the destroy calls, the creation calls, in that
\* order) and returns: it never reaches the fence reset, the submit, the
\* present or the index advance, the slot's fence stays signaled and the
\* current slot index keeps its value, so the next tick uses the same slot.
C1_AcquireOutOfDate ==
  /\ [](imageResult = VK_ERROR_OUT_OF_DATE_KHR =>
          /\ IsPrefix(calls, AcquireCalls \o RebuildCalls)
          /\ pc \in RebuildPcs \cup {"fatal", "crashed"}
          /\ pc # "fatal" => stack[1] = "loop"
          /\ pc = "cs_resize" => calls = AcquireCalls \o RebuildCalls
          /\ fenceSignaled[SlotFence(currentFrameIndex_)])
  /\ [][imageResult = VK_ERROR_OUT_OF_DATE_KHR =>
          /\ currentFrameIndex_' = currentFrameIndex_
          /\ pc = "cs_resize" => pc' = "loop"]_vars

\* C1 witness: the acquire-path rebuild has made its last creation call.
C1_Witness ==
  /\ pc = "cs_resize"
  /\ imageResult = VK_ERROR_OUT_OF_DATE_KHR
  /\ calls = AcquireCalls \o RebuildCalls

\* The frame's calls are those up to the present request and nothing more.
NotRebuilt == calls \in PresentCalls
\* The frame's calls are those up to the present request, then one rebuild.
RebuiltAfterPresent == calls \in {c \o RebuildCalls : c \in PresentCalls}

\* C2: at the present request, an out-of-date or suboptimal result or a set
\* resize flag starts a rebuild in the same RenderFrame call; a success
\* result with the flag clear goes straight to the index advance.  The
\* rebuild's calls all come after the present request and are complete before
\* the index advance.
C2_PresentRebuild ==
  /\ [][(pc = "rf_present" /\ pc' # pc) =>
          LET trigger == \/ presentationResult' = VK_ERROR_OUT_OF_DATE_KHR
                         \/ presentationResult' = VK_SUBOPTIMAL_KHR
                         \/ framebufferResized_
          IN /\ trigger => pc' = "cs_size" /\ stack' = <<"rf_clear">>
             /\ (~trigger /\ presentationResult' = VK_SUCCESS) => pc' = "rf_advance"]_vars
  /\ []((pc \in RebuildPcs /\ stack # <<>> /\ stack[1] = "rf_clear") =>
          \E c \in PresentCalls : /\ IsPrefix(c, calls)
                                  /\ IsPrefix(calls, c \o RebuildCalls))
  /\ [](pc = "rf_clear" => RebuiltAfterPresent)
  /\ [](pc = "rf_advance" =>
          /\ RebuiltAfterPresent \/ NotRebuilt
          /\ NotRebuilt => presentationResult = VK_SUCCESS /\ ~framebufferResized_
          /\ presentationResult \in {VK_ERROR_OUT_OF_DATE_KHR, VK_SUBOPTIMAL_KHR}
               => RebuiltAfterPresent)

\* C2 witness: a frame whose present was suboptimal is about to advance the
\* index, its rebuild done.
C2_Witness ==
  /\ pc = "rf_advance"
  /\ presentationResult = VK_SUBOPTIMAL_KHR
  /\ RebuiltAfterPresent

\* C3: every RenderFrame call that runs to its end leaves the current slot
\* index at (previous value + 1) modulo the slot count.
C3_RoundRobin ==
  [][(pc = "rf_advance" /\ pc' = "loop") =>
       currentFrameIndex_' = (currentFrameIndex_ + 1) % concurrentFrames_]_vars

\* C4: from the fence reset to the submit, no submission against the
\* acquired image index is still incomplete, and the tracking table names
\* the current slot's fence as the owner of that index.
C4_ImageNotInFlight ==
  pc \in {"rf_reset", "rf_submit"} =>
    /\ \A i \in 1..Len(pending) : pending[i].image # imageIndex
    /\ imagesInFlight_[imageIndex + 1] = SlotFence(currentFrameIndex_)

\* C4 witness: the table held a fence for the acquired index, RenderFrame
\* waited on it, and the frame is about to submit.
C4_Witness ==
  /\ pc = "rf_submit"
  /\ calls = AcquireCalls \o <<"vkWaitForFences", "vkResetFences">>

\* C5: from the acquire to the submit, the current slot has no incomplete
\* submission; until the reset its fence is signaled.
C5_SlotReuseAfterFence ==
  pc \in {"rf_acquire", "rf_imgwait", "rf_reset", "rf_submit"} =>
    /\ \A i \in 1..Len(pending) : pending[i].slot # currentFrameIndex_
    /\ pc # "rf_submit" => fenceSignaled[SlotFence(currentFrameIndex_)]

\* C5 witness: the slot was used by an earlier frame (the table names its
\* fence) and is about to be used by another acquire.
C5_Witness ==
  /\ pc = "rf_acquire"
  /\ SlotFence(currentFrameIndex_) \in Range(imagesInFlight_)

\* C6: the submissions that are not complete never number more than the
\* slot count.
C6_BoundedInFlight == Len(pending) <= concurrentFrames_

\* C6 witness: a submission is incomplete and RenderFrame is held at the wait
\* on the current slot's fence.
C6_Witness ==
  /\ pc = "rf_wait"
  /\ pending # <<>>
  /\ ~fenceSignaled[SlotFence(currentFrameIndex_)]

\* C7: with one frame submitted and not yet complete, the next RenderFrame
\* does not have to wait for it: its wait on the current slot's fence returns
\* at once (the slot is the other one), so a second frame can be submitted
\* beside the first.
C7_TwoFramesInFlight ==
  (pc = "rf_wait" /\ Len(pending) = 1) => ENABLED RfWaitFence

\* C8: at every destroy or free call of a rebuild's DestroySwapChain no
\* submitted work is pending.
C8_RebuildDestroysIdle ==
  (pc \in Range(DsPc) /\ "cs_swapchain" \in Range(stack)) => pending = <<>>

\* C8 witness: the present-path rebuild of a frame that submitted work is
\* about to make its first destroy call.
C8_Witness ==
  /\ pc = "ds_1"
  /\ stack = <<"rf_clear", "cs_swapchain">>
  /\ "vkQueueSubmit" \in Range(calls)

\* C9: a present result other than success, out-of-date or suboptimal ends
\* RenderFrame in a fatal error, whatever the resize flag is.
C9_PresentErrorFatal ==
  presentationResult = VK_ERROR_DEVICE_LOST => pc = "fatal"

\* C10: an acquire result other than success, suboptimal or out-of-date ends
\* RenderFrame in a fatal error right after the acquire call; a success or
\* suboptimal result takes the frame on to the image wait, from where it
\* submits and presents.
C10_AcquireResults ==
  /\ [](imageResult = VK_ERROR_DEVICE_LOST => pc = "fatal" /\ calls = AcquireCalls)
  /\ [](imageResult \in {VK_SUCCESS, VK_SUBOPTIMAL_KHR} => pc = "rf_imgwait")
  /\ [][(pc = "rf_acquire" /\ imageResult' \in {VK_SUCCESS, VK_SUBOPTIMAL_KHR}) =>
          pc' = "rf_imgwait" /\ calls' = AcquireCalls]_vars

\* C10 witness: the acquire failed with a device loss and the program is in
\* its fatal-error state.
C10_Witness ==
  /\ pc = "fatal"
  /\ imageResult = VK_ERROR_DEVICE_LOST

\* The positions of a rebuild at which it destroys or creates: the calls of
\* its DestroySwapChain and the steps after it.
RebuildWorkPcs ==
  {"cs_swapchain", "cs_create", "cs_views", "cs_pipeline", "cs_framebuffers",
   "cs_cmdbufs", "cs_resize"}
InRebuildWork ==
  \/ pc \in RebuildWorkPcs
  \/ pc \in Range(DsPc) /\ "cs_swapchain" \in Range(stack)

\* C11: while the window's framebuffer has zero width or height a rebuild is
\* at none of its destroy or create steps, and the swap chain a rebuild has
\* created never has an extent of zero width or height.
C11_MinimizedPausesRebuild ==
  /\ InRebuildWork => fbWidth # 0 /\ fbHeight # 0
  /\ pc \in RebuildWorkPcs \ {"cs_swapchain", "cs_create"} =>
       swapChainExtent_[1] # 0 /\ swapChainExtent_[2] # 0

\* The positions of Update and RenderFrame outside a rebuild.
FramePcs ==
  {"loop", "poll", "upd_idle", "rf_wait", "rf_acquire", "rf_imgwait", "rf_reset",
   "rf_submit", "rf_present", "rf_clear", "rf_advance"}

\* C12: once Initialize has returned, and again once a rebuild has returned,
\* the tracking table, the command buffers, the framebuffers and the image
\* views each number as many as the swap chain has images, and the image
\* index a frame works with is a valid index into each of them.
C12_ListLengths ==
  /\ pc \in FramePcs =>
       /\ swapChainImages_ >= 1
       /\ Len(imagesInFlight_) = swapChainImages_
       /\ commandBuffers_ = swapChainImages_
       /\ swapChainFramebuffers_ = swapChainImages_
       /\ swapChainImageViews_ = swapChainImages_
  /\ pc \in {"rf_imgwait", "rf_reset", "rf_submit", "rf_present"} =>
       /\ imageIndex + 1 \in DOMAIN imagesInFlight_
       /\ imageIndex < commandBuffers_
       /\ imageIndex < swapChainFramebuffers_
       /\ imageIndex < swapChainImageViews_

\* C12 witness: the present-path rebuild of a frame that had acquired index 1
\* has returned with a swap chain of one image.
C12_Witness ==
  /\ pc = "rf_clear"
  /\ imageIndex = 1
  /\ swapChainImages_ = 1
  /\ Len(imagesInFlight_) = 1

\* The swap chain and everything built from it.
SwapChainSet == Range(SwapChainObjects)

\* C13: at the acquire, the submit and the present of a RenderFrame the swap
\* chain, its image views, the render pass, the pipeline, the framebuffers and
\* the command buffers all exist; every build starts with none of them in
\* existence, and between two builds none of them is destroyed or created, so
\* the ones a frame uses were all made by one build.
C13_CompleteBuild ==
  /\ [](pc \in {"rf_acquire", "rf_submit", "rf_present"} => SwapChainSet \subseteq alive)
  /\ [](pc \in {"in_swapchain", "cs_swapchain"} => SwapChainSet \cap alive = {})
  /\ [][(pc \in FramePcs /\ pc' \in FramePcs) =>
          alive' \cap SwapChainSet = alive \cap SwapChainSet]_vars

\* C13 witness: a frame presents with a swap chain whose extent is not the
\* one Initialize gave it, that is, after a rebuild.
C13_Witness ==
  /\ pc = "rf_present"
  /\ swapChainExtent_ # <<MaxDim, MaxDim>>
  /\ SwapChainSet \subseteq alive

\* The present request vkQueuePresentKHR has just queued, and the submission
\* vkQueueSubmit has just queued.
Last(s) == s[Len(s)]

\* C14: the submission of a frame names the image the frame acquired, waits
\* on the slot's image-available semaphore, which holds the signal of the
\* frame's acquire, and that signal is still there when the GPU completes the
\* submission; the present request of the frame names the same image and waits
\* on the render-finished semaphore that submission signals; a request whose
\* frame is still being rendered has that submission ahead of it in the
\* graphics queue, and the presentation queue starts no request before the
\* rendering of its frame has finished.
C14_PresentAfterRender ==
  /\ [](\A i \in 1..Len(presents) :
          ~presents[i].rendered =>
            \E j \in 1..Len(pending) : /\ pending[j].image = presents[i].image
                                       /\ pending[j].signal \in presents[i].waits)
  /\ [][/\ Len(pending') > Len(pending) =>
             /\ Last(pending').image = imageIndex
             /\ Last(pending').wait = currentFrameIndex_
             /\ Last(pending').signal = currentFrameIndex_
             /\ imageAvailable[currentFrameIndex_]
        /\ Len(pending') < Len(pending) => imageAvailable[Head(pending).wait]
        /\ pc \in {"rf_imgwait", "rf_reset", "rf_submit"} =>
             imageIndex' = imageIndex /\ currentFrameIndex_' = currentFrameIndex_
        /\ Len(presents') > Len(presents) =>
             /\ Last(presents').image = imageIndex
             /\ Last(presents').waits = {currentFrameIndex_}
             /\ pending # <<>> => /\ Last(pending).image = imageIndex
                                  /\ Last(pending).signal = currentFrameIndex_
        /\ Len(presents') < Len(presents) => Head(presents).rendered]_vars

\* C14 witness: the frame's submission has completed and the presentation
\* queue has started the request the frame queued for image 1.
C14_Witness ==
  /\ pc = "rf_advance"
  /\ imageIndex = 1
  /\ presentationResult = VK_SUCCESS
  /\ pending = <<>>
  /\ presents = <<>>

\* Shutdown is running or has returned.
InShutdown ==
  \/ pc \in {"sd_objects", "done"}
  \/ pc \in Range(DsPc) /\ stack = <<"sd_objects">>

\* The objects that were created from the logical device.
DeviceChildren ==
  SwapChainSet \cup
  {"indexBuffer_", "indexBufferMemory_", "vertexBuffer_", "vertexBufferMemory_",
   "renderFinishedSemaphores_", "imageAvailableSemaphores_", "inFlightFences_",
   "commandPool_"}

Gone(o) == o \notin alive

\* C15: on the way out of the loop nothing has been destroyed when the
\* device-idle wait is made; throughout Shutdown that wait is the first call
\* on record and no submitted work is pending; the framebuffers go before the
\* pipeline, the pipeline before the render pass, the render pass before the
\* image views, the image views before the swap chain; the device goes only
\* when everything created from it is gone, the instance only when the
\* surface and the debug messenger are gone; a normal exit leaves nothing.
C15_OrderlyTeardown ==
  /\ pc = "upd_idle" =>
       (DeviceChildren \cup {"logicalDevice_", "surface_", "messenger_", "instance_"})
          \subseteq alive
  /\ InShutdown =>
       /\ pending = <<>>
       /\ calls # <<>> /\ calls[1] = "vkDeviceWaitIdle"
       /\ Gone("graphicsPipeline_") => Gone("swapChainFramebuffers_")
       /\ Gone("renderPass_") => Gone("graphicsPipeline_")
       /\ Gone("swapChainImageViews_") => Gone("renderPass_")
       /\ Gone("swapChain_") => Gone("swapChainImageViews_")
       /\ Gone("logicalDevice_") => DeviceChildren \cap alive = {}
       /\ Gone("instance_") => Gone("surface_") /\ Gone("messenger_")
  /\ pc = "done" => alive = {} /\ exitCode = 0

\* C15 witness: Shutdown has released the device and still holds the
\* instance.
C15_Witness ==
  /\ pc = "sd_objects"
  /\ Gone("logicalDevice_")
  /\ "instance_" \in alive

\* C16: every DestroySwapChain call starts with the whole set in existence
\* and releases the framebuffers before the pipeline, the pipeline before the
\* pipeline layout, the layout before the render pass, the render pass before
\* the image views and the image views before the swap chain handle; the
\* logical device exists at each of its calls and when it returns, and it
\* returns with the whole set released.
C16_DestroyOrder ==
  /\ [](pc = "ds_1" => SwapChainSet \subseteq alive)
  /\ [](pc \in Range(DsPc) =>
          /\ "logicalDevice_" \in alive
          /\ Gone("graphicsPipeline_") => Gone("swapChainFramebuffers_")
          /\ Gone("pipelineLayout_") => Gone("graphicsPipeline_")
          /\ Gone("renderPass_") => Gone("pipelineLayout_")
          /\ Gone("swapChainImageViews_") => Gone("renderPass_")
          /\ Gone("swapChain_") => Gone("swapChainImageViews_"))
  /\ [][(pc \in Range(DsPc) /\ pc' \notin Range(DsPc)) =>
          /\ SwapChainSet \cap alive' = {}
          /\ "logicalDevice_" \in alive']_vars

\* C16 witness: the DestroySwapChain of a rebuild has released the render
\* pass and is about to release the image views.
C16_Witness ==
  /\ pc = "ds_6"
  /\ "cs_swapchain" \in Range(stack)
  /\ Gone("renderPass_")
  /\ "swapChainImageViews_" \in alive

ClaimedImageCount(caps) ==
  IF caps.maxImageCount # 0 /\ caps.maxImageCount < caps.minImageCount + 1
  THEN caps.maxImageCount
  ELSE caps.minImageCount + 1

\* C18: the image count InitializeSwapChain requests is minImageCount + 1,
\* lowered to maxImageCount only when maxImageCount is nonzero and smaller;
\* with maxImageCount = 0 it is minImageCount + 1.
C18_RequestedImageCount ==
  pc \in {"in_create", "cs_create"} =>
    createInfo.minImageCount =
      ClaimedImageCount(swapChainSupportData.surfaceCapabilities_)

\* C19: InitializeSwapChain never gets as far as vkCreateSwapchainKHR with a
\* report whose format list or presentation-mode list is empty: the build has
\* failed before, at startup and in a rebuild alike.
C19_UnsupportedSurfaceFatal ==
  pc \in {"in_create", "cs_create"} =>
    /\ swapChainSupportData.formats_ # <<>>
    /\ swapChainSupportData.presentationModes_ # <<>>

\* C20: ChooseSwapChainExtent returns the surface's current extent when that
\* is not the sentinel; when it is, each dimension of the result is the
\* window's framebuffer size if that lies in the surface's range, the
\* minimum if it lies below and the maximum if it lies above; the result
\* always lies within the range.
C20_ExtentChoice ==
  pc = "in_create" =>
    LET caps == swapChainSupportData.surfaceCapabilities_
        lo == caps.minImageExtent
        hi == caps.maxImageExtent
        size == <<fbWidth, fbHeight>>
        extent == createInfo.imageExtent
    IN /\ caps.currentExtent # Sentinel => extent = caps.currentExtent
       /\ caps.currentExtent = Sentinel =>
            \A i \in 1..2 :
              /\ (lo[i] <= size[i] /\ size[i] <= hi[i]) => extent[i] = size[i]
              /\ size[i] < lo[i] => extent[i] = lo[i]
              /\ size[i] > hi[i] => extent[i] = hi[i]
       /\ Within(lo, extent, hi)

\* C20 witness: the surface left the extent to the caller, the window was
\* wider than the maximum and lower than the minimum, and the extent chosen
\* is the maximum width and the minimum height.
C20_Witness ==
  /\ pc = "in_create"
  /\ swapChainSupportData.surfaceCapabilities_.currentExtent = Sentinel
  /\ fbWidth > swapChainSupportData.surfaceCapabilities_.maxImageExtent[1]
  /\ fbHeight < swapChainSupportData.surfaceCapabilities_.minImageExtent[2]
  /\ createInfo.imageExtent =
       <<swapChainSupportData.surfaceCapabilities_.maxImageExtent[1],
         swapChainSupportData.surfaceCapabilities_.minImageExtent[2]>>

\* The format and colour space ChooseSwapChainSurfaceFormat looks for.
WantedFormat ==
  [format |-> VK_FORMAT_B8G8R8A8_SRGB, colorSpace |-> VK_COLOR_SPACE_SRGB_NONLINEAR_KHR]

\* C21: on a non-empty format list ChooseSwapChainSurfaceFormat returns the
\* B8G8R8A8 sRGB / sRGB-nonlinear entry when the list holds one, and the
\* list's first entry when it holds none; what it returns is an entry of the
\* list.
C21_FormatChoice ==
  (pc = "in_create" /\ swapChainSupportData.formats_ # <<>>) =>
    LET formats == swapChainSupportData.formats_
        result == createInfo.imageFormat
    IN /\ WantedFormat \in Range(formats) => result = WantedFormat
       /\ WantedFormat \notin Range(formats) => result = formats[1]
       /\ result \in Range(formats)

\* C21 witness: the wanted entry came second in the list, behind another
\* format, and is the one chosen.
C21_Witness ==
  /\ pc = "in_create"
  /\ Len(swapChainSupportData.formats_) = 2
  /\ swapChainSupportData.formats_[1] # WantedFormat
  /\ swapChainSupportData.formats_[2] = WantedFormat
  /\ createInfo.imageFormat = WantedFormat

\* CreateSwapChain is running, DestroySwapChain and the build steps included.
InRebuild == pc \in RebuildPcs /\ ~InShutdown

\* What Initialize makes once and a rebuild has no business with: the logical
\* device (with its queues), the command pool, the vertex and index buffers,
\* the frame-slot semaphores and fences.
KeptObjects ==
  {"logicalDevice_", "commandPool_", "vertexBuffer_", "vertexBufferMemory_",
   "indexBuffer_", "indexBufferMemory_", "imageAvailableSemaphores_",
   "renderFinishedSemaphores_", "inFlightFences_"}
\* What a rebuild destroys and makes again.
RebuiltObjects ==
  {"swapChain_", "swapChainImageViews_", "renderPass_", "graphicsPipeline_",
   "pipelineLayout_", "swapChainFramebuffers_", "commandBuffers_"}

\* C22: while CreateSwapChain runs, the logical device, the command pool, the
\* vertex and index buffers and the frame-slot semaphores and fences exist, and
\* no step of it destroys or creates anything but the swap chain, the image
\* views, the render pass, the pipeline and its layout, the framebuffers and
\* the command buffers; the current slot index keeps its value; the tracking
\* table changes in length only: the entries it keeps keep their value, the
\* entries it gains are null.
C22_RebuildLeavesDevice ==
  /\ [](InRebuild => KeptObjects \subseteq alive)
  /\ [][InRebuild =>
          /\ alive' \ RebuiltObjects = alive \ RebuiltObjects
          /\ currentFrameIndex_' = currentFrameIndex_
          /\ \A i \in DOMAIN imagesInFlight_' :
               imagesInFlight_'[i] = IF i \in DOMAIN imagesInFlight_
                                     THEN imagesInFlight_[i] ELSE VK_NULL_HANDLE]_vars

\* C22 witness: a present-path rebuild has returned with everything Initialize
\* made still there, a swap chain of another extent and a tracking table of
\* two entries whose first one is the fence an earlier frame put there.
C22_Witness ==
  /\ pc = "rf_clear"
  /\ KeptObjects \cup RebuiltObjects \subseteq alive
  /\ swapChainExtent_ # <<MaxDim, MaxDim>>
  /\ Len(imagesInFlight_) = 2
  /\ imagesInFlight_[1] = SlotFence(currentFrameIndex_)
  /\ imagesInFlight_[2] = VK_NULL_HANDLE

\* The device has a queue family that does graphics and a queue family that
\* can present to the surface, the swap-chain extension, and a surface with
\* at least one format and one presentation mode.
Acceptable(d) ==
  /\ \E i \in 1..Len(d.queueData) : d.queueData[i].graphics
  /\ \E i \in 1..Len(d.queueData) : d.queueData[i].presentationSupport
  /\ d.extensionsSupported
  /\ d.formats_ # <<>>
  /\ d.presentationModes_ # <<>>

\* C23: when every surface query succeeds, InitializePhysicalDevice selects
\* the first listed device that has a graphics family and a presentation
\* family (one family or two), the swap-chain extension and a format and a
\* mode; it fails only when the list holds no such device.
C23_FirstAcceptableDevice ==
  (/\ pc \in {"in_logical", "fatal"}
   /\ physicalDevices # <<>>
   /\ \A i \in 1..Len(physicalDevices) : physicalDevices[i].surfaceQueried) =>
    LET ok == {i \in 1..Len(physicalDevices) : Acceptable(physicalDevices[i])}
    IN IF ok = {} THEN pc = "fatal"
       ELSE /\ pc = "in_logical"
            /\ physicalDeviceData_.physicalDevice_ \in ok
            /\ \A i \in ok : physicalDeviceData_.physicalDevice_ <= i

\* C24: the current slot index is an index into the per-slot fence and
\* semaphore arrays, 0 <= currentFrameIndex_ < concurrentFrames_, whatever
\* frames, aborted acquires and rebuilds have gone before.
C24_SlotIndexValid == currentFrameIndex_ \in 0..(concurrentFrames_ - 1)

\* C24 witness: a RenderFrame call is about to start after an earlier one ran
\* to its index advance (the table names the fence that frame used).
C24_Witness ==
  /\ pc = "rf_wait"
  /\ \E i \in DOMAIN imagesInFlight_ : imagesInFlight_[i] # VK_NULL_HANDLE

\* C25: once the fences exist, a fence that is not signaled belongs to a
\* submission the GPU has not completed, or was reset by a RenderFrame that is
\* about to submit (or has thrown at the submit); so with a GPU that completes
\* what is submitted to it, a RenderFrame held at the wait on its slot's fence
\* gets past it, and one held at the wait on the acquired image's fence gets
\* past that.
C25_FenceWaitsReturn ==
  /\ [](("inFlightFences_" \in alive /\ pc # "fatal") =>
          \A f \in FenceHandles :
            ~fenceSignaled[f] =>
              \/ pc = "rf_submit"
              \/ \E i \in 1..Len(pending) : pending[i].fence = f)
  /\ (pc = "rf_wait") ~> (pc = "rf_acquire")
  /\ (pc = "rf_imgwait") ~> (pc = "rf_reset")

\* C25 witness: RenderFrame is at the wait on the fence that tracks the image
\* it acquired, the fence of an earlier frame, after its wait on the slot's
\* fence returned.
C25_Witness ==
  /\ pc = "rf_imgwait"
  /\ imagesInFlight_[imageIndex + 1] # VK_NULL_HANDLE
  /\ calls = AcquireCalls

\* C26: a signal on a slot's image-available semaphore belongs to the frame
\* that acquired with it and has not submitted yet, or to a submission that
\* waits on it and has not completed; when RenderFrame passes the current
\* slot's semaphore to vkAcquireNextImageKHR the semaphore holds no signal,
\* after completed frames, aborted acquires and rebuilds alike.
C26_AcquireSemaphoreClear ==
  /\ pc = "rf_acquire" => ~imageAvailable[currentFrameIndex_]
  /\ pc # "fatal" =>
       \A s \in Slots :
         imageAvailable[s] =>
           \/ s = currentFrameIndex_ /\ pc \in {"rf_imgwait", "rf_reset", "rf_submit"}
           \/ \E i \in 1..Len(pending) : pending[i].wait = s

\* C26 witness: a frame is at its acquire after an earlier frame acquired
\* with the same semaphore and a rebuild changed the swap chain's extent.
C26_Witness ==
  /\ pc = "rf_acquire"
  /\ \E i \in DOMAIN imagesInFlight_ : imagesInFlight_[i] = SlotFence(currentFrameIndex_)
  /\ swapChainExtent_ # <<MaxDim, MaxDim>>
  /\ ~imageAvailable[currentFrameIndex_]

\* The entries of the tracking table that name a fence.
TableFences ==
  {imagesInFlight_[i] : i \in DOMAIN imagesInFlight_} \ {VK_NULL_HANDLE}

\* C27: in every reachable state, every entry of the tracking table that is
\* not null is the handle of a frame-slot fence, and the slot fences exist.
C27_TableEntriesLive ==
  TableFences # {} =>
    TableFences \subseteq FenceHandles /\ "inFlightFences_" \in alive

\* C27, amended: every entry of the tracking table that is not null is the
\* handle of a frame-slot fence, and the slot fences exist for as long as
\* frames are rendered and swap chains rebuilt: the entries outlive the fences
\* only once Shutdown has destroyed the swap chain and then the fences.
C27_TableEntriesLiveUntilShutdown ==
  TableFences # {} =>
    /\ TableFences \subseteq FenceHandles
    /\ "inFlightFences_" \notin alive =>
         /\ pc \in {"sd_objects", "done", "fatal"}
         /\ RebuiltObjects \cap alive = {}

\* C27 witness: a rebuild with a swap chain of another extent has returned
\* and the table still names the fence an earlier frame put there.
C27_Witness ==
  /\ pc = "loop"
  /\ swapChainExtent_ # <<MaxDim, MaxDim>>
  /\ TableFences = {SlotFence(currentFrameIndex_)}
  /\ "inFlightFences_" \in alive

\* C28: the resize flag goes from set to clear only in the statement that
\* directly follows a rebuild on the present path.  A flag that is set when
\* the acquire reports out-of-date is still set all through the acquire-path
\* rebuild and when that rebuild returns; it stays set in every step that is
\* not that statement, and a frame that reaches the present request with the
\* flag set starts a rebuild that returns to the clearing statement.
C28_FlagClearedAfterPresentRebuild ==
  /\ [][(framebufferResized_ /\ ~framebufferResized_') =>
          /\ pc = "rf_clear" /\ pc' = "rf_advance"
          /\ RebuiltAfterPresent]_vars
  /\ [][(framebufferResized_ /\ pc \in RebuildPcs /\ stack = <<AcquireRebuildReturn>>) =>
          /\ framebufferResized_'
          /\ pc' \in RebuildPcs \cup {"loop", "fatal", "crashed"}]_vars
  /\ [][(framebufferResized_ /\ pc = "rf_present" /\ pc' # pc) =>
          /\ pc' = "cs_size" /\ stack' = <<"rf_clear">>
          /\ framebufferResized_']_vars
  /\ [](pc = "rf_clear" => stack = <<>> /\ ENABLED RfClearResized)

\* C28 witness: the acquire reported out-of-date with the flag set, and the
\* acquire-path rebuild is about to return with the flag still set.
C28_Witness ==
  /\ pc = "cs_resize"
  /\ stack = <<AcquireRebuildReturn>>
  /\ imageResult = VK_ERROR_OUT_OF_DATE_KHR
  /\ framebufferResized_

\* The calls of Shutdown and of the device-idle wait before it.
TeardownCalls ==
  {"vkDeviceWaitIdle"} \cup Range(DestroyCalls) \cup Range(DeviceDestroyCalls)

\* C30: a fatal error raised by a step of Initialize or of RenderFrame takes
\* Run straight to main's handler, which returns 1: the raising step destroys
\* nothing and issues at most the calls up to the one that failed, none of
\* them a device-idle wait or a destroy call, and after the error no call is issued,
\* no object is destroyed, nothing is submitted or presented and the exit
\* code stays 1.
C30_FatalSkipsShutdown ==
  /\ [][(exitCode # 1 /\ exitCode' = 1 /\ pc # "sd_objects") =>
          /\ pc' = "fatal"
          /\ alive \subseteq alive'
          /\ pending' = pending
          /\ IsPrefix(calls, calls')
          /\ \A i \in (Len(calls) + 1)..Len(calls') :
               calls'[i] \notin TeardownCalls]_vars
  /\ [][exitCode = 1 =>
          /\ pc = "fatal"
          /\ UNCHANGED <<pc, exitCode, alive, calls, pending, presents>>]_vars
  /\ [](exitCode = 1 <=> pc = "fatal")

\* C30 witness: a present request of RenderFrame failed; main has returned 1
\* and every object Shutdown would have destroyed still exists.
C30_Witness ==
  /\ pc = "fatal"
  /\ exitCode = 1
  /\ presentationResult = VK_ERROR_DEVICE_LOST
  /\ Range(DeviceObjects) \cup Range(SwapChainObjects) \subseteq alive

\* The states that directly follow a delivery of events: glfwPollEvents
\* has returned into RenderFrame, or a turn of the minimized-window loop has
\* ended.  With the resize flag set, a notification is waiting there for
\* its rebuild.
AfterEvents == pc \in {"rf_wait", "cs_loop"}
\* A rebuild is about to query the surface.
AtSurfaceQuery == pc = "cs_swapchain"
ZeroSized == fbWidth = 0 \/ fbHeight = 0

\* C29: a resize notification sets the resize flag, and the flag found set
\* after a delivery of events is followed by a rebuild that queries the
\* surface, unless a fatal error ends the program or the window stays
\* zero-sized for ever; this includes a notification delivered in the
\* minimized-window wait of a rebuild.
C29_ResizeLeadsToRebuild ==
  /\ [][(<<width_, height_>>' # <<width_, height_>>) => framebufferResized_']_vars
  /\ (AfterEvents /\ framebufferResized_) ~>
       (AtSurfaceQuery \/ pc = "fatal" \/ []ZeroSized)

====
